---- MODULE Spec2Model ----
(***************************************************************************)
(* django_tus/views.py: the TusUpload view.  Resumable upload sessions     *)
(* kept in the Django cache (four entries per resource id) and in a        *)
(* temporary file named by the resource id; POST creates a session, HEAD   *)
(* reports it, PATCH appends a chunk and finalizes the upload.             *)
(*                                                                         *)
(* Each request is served by its own handler (thread per request).  POST   *)
(* and HEAD touch a resource nobody else can name yet, or only read, and   *)
(* are one step each.  PATCH is split at every access to shared state      *)
(* (cache reads, the file check, the file write, cache.incr, os.rename,    *)
(* cache.delete_many, the signal), so that handlers interleave there.      *)
(*                                                                         *)
(* Spec is the view under concurrent requests and a cache that may drop    *)
(* entries at any moment.  SpecRoundTrip, SpecOverwrite, SpecProtocol and  *)
(* SpecExpiry are the same handlers under one client's sequential          *)
(* requests: a front-to-back upload, either value of TUS_FILE_OVERWRITE,   *)
(* requests without Tus-Resumable, and a clock for TUS_TIMEOUT.            *)
(***************************************************************************)
EXTENDS Integers, Sequences, FiniteSets, TLC

\* ---------------------------------------------------------------- bounds
MaxSessions == 1
MaxSize == 2
MaxChunk == 2
MaxPatches == 2
MaxEvictions == 1
NumHandlers == 2
\* seconds the clock advances in one step
TickLength == 1800

\* ------------------------------------------------------ program constants
\* default of request.META.get("CONTENT_LENGTH", 102400)
DefaultChunkSize == 102400

\* default of getattr(settings, "TUS_TIMEOUT", 3600), in seconds
TUS_TIMEOUT == 3600

\* ------------------------------------------------------------ value sets
\* Python's None is the empty tuple, a value v is the 1-tuple <<v>>.
None == <<>>
Some(v) == <<v>>

\* resource ids: uuid4 strings, here 1..MaxSessions in order of creation;
\* 0 is an id a client made up, which POST never hands out.
RIDs == 1..MaxSessions
Fabricated == 0
AllIds == {Fabricated} \cup RIDs

Handlers == 1..NumHandlers

\* 0 is the byte of a region of the file nobody wrote (the hole left by
\* seek, and the "\0" POST writes).  The view never looks into a request
\* body, so the k-th PATCH request carries bytes of value k: every byte of
\* a file tells which request wrote it.
Filler == 0

BodyOf(k, n) == [i \in 1..n |-> k]

\* the filename key of Upload-Metadata, when the client sends one
UserNames == {"a.txt"}

Details == {"filename", "file_size", "offset", "metadata"}

VARIABLES
  cache,               \* django.core.cache: [rid -> [detail -> None | <<value>>]]
  uploadDir,           \* TUS_UPLOAD_DIR/<resource_id>: None | <<file contents>>
  destDir,             \* files renamed into get_destination_dir(), in order
  signals,             \* tus_upload_finished_signal.send calls, in order
  TUS_FILE_OVERWRITE,  \* the setting
  nextId,              \* resource ids handed out so far
  patches,             \* PATCH requests started so far
  evictions,           \* cache entries evicted so far
  hs,                  \* per handler: the PATCH it is serving and its locals
  resp,                \* the response the last step returned, if it returned one
  appended,            \* per rid: bodies of the PATCHes whose cache.incr succeeded
  ttl                  \* per cache entry: seconds it has left, 0 when absent

vars == <<cache, uploadDir, destDir, signals,
          TUS_FILE_OVERWRITE, nextId, patches, evictions, hs, resp,
          appended, ttl>>

\* what a request can change outside its own locals
store == <<cache, uploadDir, destDir, signals>>

NoEntries == [d \in Details |-> None]

NoTtl == [d \in Details |-> 0]

IdleHandler ==
  [pc |-> "idle", rid |-> Fabricated,
   file_offset |-> 0, body |-> <<>>, chunk_size |-> 0,
   filename |-> None, file_size |-> None, metadata |-> None, offset |-> None,
   new_offset |-> None, final_name |-> None, tus_resumable |-> TRUE]

\* a response: the method, the resource, the line of the handler that
\* returned (or raised), the status, the exception that escaped the view,
\* the Upload-Offset, Upload-Length and Location headers, and the reason
\* phrase when the view set one.
NoResponse ==
  [op |-> "none", rid |-> Fabricated, at |-> "none", status |-> 0,
   exc |-> "none", upload_offset |-> None, upload_length |-> None,
   location |-> None, file_size |-> None, reason_phrase |-> None]

Response(op, r, at, status) ==
  [NoResponse EXCEPT !.op = op, !.rid = r, !.at = at, !.status = status]

\* an exception nothing catches: Django answers 500
Raised(op, r, at, exc) ==
  [NoResponse EXCEPT !.op = op, !.rid = r, !.at = at, !.status = 500,
                     !.exc = exc]

Init ==
  /\ cache = [r \in AllIds |-> NoEntries]
  /\ uploadDir = [r \in AllIds |-> None]
  /\ destDir = <<>>
  /\ signals = <<>>
  /\ TUS_FILE_OVERWRITE = TRUE   \* line 25, the default of the setting
  /\ nextId = 0
  /\ patches = 0
  /\ evictions = 0
  /\ hs = [h \in Handlers |-> IdleHandler]
  /\ resp = NoResponse
  /\ appended = [r \in AllIds |-> <<>>]
  /\ ttl = [r \in AllIds |-> NoTtl]

\* a request is served by a handler that serves none; handlers are alike,
\* so a new request takes the first one.
Free(h) == hs[h].pc = "idle" /\ \A g \in Handlers : g < h => hs[g].pc # "idle"

\* ------------------------------------------------------- cache primitives
\* cache.get(key): None when the key is absent
CacheGet(r, d) == cache[r][d]

\* cache.add(key, value, timeout): sets the key only if it is absent
CacheAdd(c, r, d, v) ==
  IF c[r][d] = None THEN [c EXCEPT ![r][d] = Some(v)] ELSE c

\* cache.delete_many(keys)
CacheDeleteMany(c, r) == [c EXCEPT ![r] = NoEntries]

\* ------------------------------------------------------------ file model
Max(a, b) == IF a >= b THEN a ELSE b

\* f = open(path, "wb"); f.seek(file_size); f.write(b"\0"); f.close()
Preallocate(file_size) == [i \in 1..(file_size + 1) |-> Filler]

\* file_.seek(pos); file_.write(body) on a file holding `content`:
\* a write of no bytes leaves the file as it is, a write past the end
\* fills the gap with zero bytes.
WriteAt(content, pos, body) ==
  IF Len(body) = 0 THEN content
  ELSE [i \in 1..Max(Len(content), pos + Len(body)) |->
          IF i > pos /\ i <= pos + Len(body) THEN body[i - pos]
          ELSE IF i <= Len(content) THEN content[i]
          ELSE Filler]

\* ------------------------------------------------------------------ POST
\* metadata parsed from Upload-Metadata: here at most the filename key
MetadataOf(name) == IF name = None THEN {} ELSE {<<"filename", name[1]>>}

\* "{}".format(user_filename)
FormatName(name) == IF name = None THEN "None" ELSE name[1]

\* user_filename and os.path.lexists(TUS_UPLOAD_DIR/user_filename)
\*   and TUS_FILE_OVERWRITE is False
\* exists: whether TUS_UPLOAD_DIR holds a file of that name (such files
\* are put there by others, never by this view)
PostRefused(name, exists) ==
  /\ name # None
  /\ exists
  /\ TUS_FILE_OVERWRITE = FALSE

\* the timeout argument of the four cache.add calls: an entry that is set
\* gets TUS_TIMEOUT seconds, one that was there keeps what it has
PostTtl(r) ==
  [ttl EXCEPT ![r] = [d \in Details |->
     IF cache[r][d] = None THEN TUS_TIMEOUT ELSE @[d]]]

PostAdd(c, r, name, file_size) ==
  CacheAdd(CacheAdd(CacheAdd(CacheAdd(c,
    r, "filename", FormatName(name)),
    r, "file_size", file_size),
    r, "offset", 0),
    r, "metadata", MetadataOf(name))

\* lines 110-114: without Tus-Resumable the response gets status 500 and a
\* reason phrase, and post goes on; every return below assigns the status
\* again.
Unsupported == "Received File upload for unsupported file transfer protocol"

PostResponse(tus_resumable, r, at, status) ==
  LET response == IF tus_resumable
                  THEN Response("post", r, at, 200)
                  ELSE [Response("post", r, at, 500) EXCEPT
                          !.reason_phrase = Some(Unsupported)]
  IN [response EXCEPT !.status = status]

\* ioError: open() of the temporary file raises IOError
\* tus_resumable: the request has the Tus-Resumable header
post(name, exists, file_size, ioError, tus_resumable) ==
  /\ IF PostRefused(name, exists)
     THEN /\ resp' = PostResponse(tus_resumable, Fabricated, "139", 409)
          /\ UNCHANGED <<cache, uploadDir, nextId, ttl>>
     ELSE /\ nextId < MaxSessions
          /\ nextId' = nextId + 1
          /\ cache' = PostAdd(cache, nextId', name, file_size)
          /\ ttl' = PostTtl(nextId')
          /\ IF ioError
             THEN /\ uploadDir' = uploadDir
                  /\ resp' = PostResponse(tus_resumable, nextId', "164", 500)
             ELSE /\ uploadDir' = [uploadDir EXCEPT
                         ![nextId'] = Some(Preallocate(file_size))]
                  /\ resp' = [PostResponse(tus_resumable, nextId', "168", 201)
                                EXCEPT !.location = Some(nextId')]
  /\ UNCHANGED <<destDir, signals, TUS_FILE_OVERWRITE, patches, evictions,
                 hs, appended>>

\* ------------------------------------------------------------------ HEAD
\* head with a fault: the two response headers swapped
head_swapped(r) ==
  /\ resp' =
       IF CacheGet(r, "offset") = None
       THEN Response("head", r, "177", 404)
       ELSE [Response("head", r, "183", 200) EXCEPT
               !.upload_offset = CacheGet(r, "file_size"),
               !.upload_length = CacheGet(r, "offset")]
  /\ UNCHANGED <<cache, uploadDir, destDir, signals,
                 TUS_FILE_OVERWRITE, ttl, nextId, patches, evictions, hs, appended>>

\* lines 170-183
head(r) ==
  /\ resp' =
       IF CacheGet(r, "offset") = None
       THEN Response("head", r, "177", 404)
       ELSE [Response("head", r, "183", 200) EXCEPT
               !.upload_offset = CacheGet(r, "offset"),
               !.upload_length = CacheGet(r, "file_size")]
  /\ UNCHANGED <<cache, uploadDir, destDir, signals,
                 TUS_FILE_OVERWRITE, ttl, nextId, patches, evictions, hs, appended>>

\* ----------------------------------------------------------------- PATCH
\* line 194: int(request.META.get("CONTENT_LENGTH", 102400)).  With the
\* header, request.body has that many bytes; without it, WSGI hands the view
\* an empty body.
ChunkSize(hasLength, body) == IF hasLength THEN Len(body) ELSE DefaultChunkSize

\* lines 186-194: the four cache.get calls and the two request headers.
\* int(None) at line 189 raises TypeError, which nothing catches.
\* tus_resumable: the request has the Tus-Resumable header, which patch
\* never reads.
patch_read(h, r, file_offset, hasLength, n, tus_resumable) ==
  /\ Free(h)
  /\ patches < MaxPatches
  /\ patches' = patches + 1
  /\ hasLength \/ n = 0
  /\ LET body == BodyOf(patches', n) IN
     IF CacheGet(r, "file_size") = None
     THEN /\ resp' = Raised("patch", r, "189", "TypeError")
          /\ hs' = hs
     ELSE /\ resp' = NoResponse
          /\ hs' = [hs EXCEPT ![h] = [IdleHandler EXCEPT
               !.pc = "check", !.rid = r, !.tus_resumable = tus_resumable,
               !.file_offset = file_offset, !.body = body,
               !.chunk_size = ChunkSize(hasLength, body),
               !.filename = CacheGet(r, "filename"),
               !.file_size = CacheGet(r, "file_size"),
               !.metadata = CacheGet(r, "metadata"),
               !.offset = CacheGet(r, "offset")]]
  /\ UNCHANGED <<cache, uploadDir, destDir, signals,
                 TUS_FILE_OVERWRITE, ttl, nextId, evictions, appended>>

\* line 197: filename is None or not os.path.lexists(upload_file_path)
IsGone(filename, file) == filename = None \/ file = None

\* OutOfSync with a fault: rejects only an offset ahead of the stored one
OutOfSyncAhead(file_offset, offset) ==
  offset = None \/ file_offset > offset[1]

\* line 201: file_offset != offset
OutOfSync(file_offset, offset) == offset # Some(file_offset)

\* lines 196-203
patch_check(h) ==
  /\ hs[h].pc = "check"
  /\ IF IsGone(hs[h].filename, uploadDir[hs[h].rid])
     THEN /\ resp' = Response("patch", hs[h].rid, "199", 410)
          /\ hs' = [hs EXCEPT ![h] = IdleHandler]
     ELSE IF OutOfSync(hs[h].file_offset, hs[h].offset)
     THEN /\ resp' = Response("patch", hs[h].rid, "203", 409)
          /\ hs' = [hs EXCEPT ![h] = IdleHandler]
     ELSE /\ resp' = NoResponse
          /\ hs' = [hs EXCEPT ![h].pc = "write"]
  /\ UNCHANGED <<cache, uploadDir, destDir, signals,
                 TUS_FILE_OVERWRITE, ttl, nextId, patches, evictions, appended>>

\* lines 214-217: open "r+b", and on IOError (no such file) open "wb",
\* which creates the file
OpenForWrite(file) == IF file = None THEN <<>> ELSE file[1]

\* lines 214-221
patch_write(h) ==
  /\ hs[h].pc = "write"
  /\ uploadDir' = [uploadDir EXCEPT ![hs[h].rid] =
       Some(WriteAt(OpenForWrite(@), hs[h].file_offset, hs[h].body))]
  /\ hs' = [hs EXCEPT ![h].pc = "incr"]
  /\ resp' = NoResponse
  /\ UNCHANGED <<cache, destDir, signals,
                 TUS_FILE_OVERWRITE, ttl, nextId, patches, evictions, appended>>

\* line 226: file_size == new_offset
IsComplete(file_size, new_offset) == file_size = Some(new_offset)

\* lines 223-226 and 249: cache.incr is atomic; it raises ValueError when
\* the key is absent.  What it does to the entry's expiry is the cache
\* backend's business: some keep it, some set the value anew with their
\* default timeout, taken here at its most generous, a full TUS_TIMEOUT.
patch_incr(h) ==
  /\ hs[h].pc = "incr"
  /\ LET r == hs[h].rid
         old == CacheGet(r, "offset")
     IN IF old = None
        THEN /\ resp' = Raised("patch", r, "223", "ValueError")
             /\ hs' = [hs EXCEPT ![h] = IdleHandler]
             /\ UNCHANGED <<cache, appended, ttl>>
        ELSE LET new_offset == old[1] + hs[h].chunk_size
             IN /\ cache' = [cache EXCEPT ![r]["offset"] = Some(new_offset)]
                /\ \E restarted \in BOOLEAN :
                     ttl' = IF restarted
                            THEN [ttl EXCEPT ![r]["offset"] = TUS_TIMEOUT]
                            ELSE ttl
                /\ appended' = [appended EXCEPT ![r] = @ \o hs[h].body]
                /\ IF IsComplete(hs[h].file_size, new_offset)
                   THEN /\ resp' = NoResponse
                        /\ hs' = [hs EXCEPT ![h].pc = "rename",
                                    ![h].new_offset = Some(new_offset)]
                   ELSE /\ resp' = [Response("patch", r, "249", 200) EXCEPT
                                      !.upload_offset = Some(new_offset),
                                      !.file_size = hs[h].file_size]
                        /\ hs' = [hs EXCEPT ![h] = IdleHandler]
  /\ UNCHANGED <<uploadDir, destDir, signals,
                 TUS_FILE_OVERWRITE, nextId, patches, evictions>>

\* lines 229-230: filename = uuid.uuid4().hex + "_" + filename; os.rename
\* raises FileNotFoundError when the temporary file is not there.
patch_rename(h) ==
  /\ hs[h].pc = "rename"
  /\ LET r == hs[h].rid
         name == <<Len(destDir) + 1, hs[h].filename[1]>>
     IN IF uploadDir[r] = None
        THEN /\ resp' = Raised("patch", r, "230", "FileNotFoundError")
             /\ hs' = [hs EXCEPT ![h] = IdleHandler]
             /\ UNCHANGED <<uploadDir, destDir>>
        ELSE /\ destDir' = Append(destDir,
                   [rid |-> r, name |-> name, content |-> uploadDir[r][1]])
             /\ uploadDir' = [uploadDir EXCEPT ![r] = None]
             /\ hs' = [hs EXCEPT ![h].pc = "delete",
                                 ![h].final_name = Some(name)]
             /\ resp' = NoResponse
  /\ UNCHANGED <<cache, signals, TUS_FILE_OVERWRITE, ttl,
                 nextId, patches, evictions, appended>>

\* lines 231-236
patch_delete(h) ==
  /\ hs[h].pc = "delete"
  /\ cache' = CacheDeleteMany(cache, hs[h].rid)
  /\ ttl' = [ttl EXCEPT ![hs[h].rid] = NoTtl]
  /\ hs' = [hs EXCEPT ![h].pc = "signal"]
  /\ resp' = NoResponse
  /\ UNCHANGED <<uploadDir, destDir, signals,
                 TUS_FILE_OVERWRITE, nextId, patches, evictions, appended>>

\* lines 238-249
patch_signal(h) ==
  /\ hs[h].pc = "signal"
  /\ signals' = Append(signals,
       [rid |-> hs[h].rid,
        metadata |-> hs[h].metadata,
        filename |-> hs[h].final_name,
        upload_file_path |-> <<"TUS_UPLOAD_DIR", hs[h].rid>>,
        file_size |-> hs[h].file_size,
        destination_folder |-> "destination_dir"])
  /\ resp' = [Response("patch", hs[h].rid, "249", 200) EXCEPT
                !.upload_offset = hs[h].new_offset,
                !.file_size = hs[h].file_size]
  /\ hs' = [hs EXCEPT ![h] = IdleHandler]
  /\ UNCHANGED <<cache, uploadDir, destDir,
                 TUS_FILE_OVERWRITE, ttl, nextId, patches, evictions, appended>>

\* ----------------------------------------------------------------- cache
\* The four entries of a session are added with TUS_TIMEOUT one after the
\* other (lines 151-154): they time out together.  No clock here: the
\* time may be up at any moment.
timeout(r) ==
  /\ cache[r] # NoEntries
  /\ cache' = [cache EXCEPT ![r] = NoEntries]
  /\ ttl' = [ttl EXCEPT ![r] = NoTtl]
  /\ resp' = NoResponse
  /\ UNCHANGED <<uploadDir, destDir, signals, TUS_FILE_OVERWRITE, nextId,
                 patches, evictions, hs, appended>>

\* The cache may also drop any single entry before its time (eviction).
evict(r, d) ==
  /\ cache[r][d] # None
  /\ evictions < MaxEvictions
  /\ evictions' = evictions + 1
  /\ cache' = [cache EXCEPT ![r][d] = None]
  /\ ttl' = [ttl EXCEPT ![r][d] = 0]
  /\ resp' = NoResponse
  /\ UNCHANGED <<uploadDir, destDir, signals, TUS_FILE_OVERWRITE, nextId,
                 patches, hs, appended>>

\* The clock advances by TickLength seconds: every entry has that much
\* less to live, and one with nothing left is gone.
tick ==
  /\ ttl' = [r \in AllIds |-> [d \in Details |->
               Max(ttl[r][d] - TickLength, 0)]]
  /\ cache' = [r \in AllIds |-> [d \in Details |->
                 IF ttl'[r][d] = 0 THEN None ELSE cache[r][d]]]
  /\ resp' = NoResponse
  /\ UNCHANGED <<uploadDir, destDir, signals, TUS_FILE_OVERWRITE, nextId,
                 patches, evictions, hs, appended>>

\* ------------------------------------------------------------------ spec
RequestOffsets == 0..MaxSize

Names == {None} \cup {Some(n) : n \in UserNames}

\* Clients that send Tus-Resumable with every request; what the view does
\* without the header is SpecProtocol's.
Next ==
  \/ \E name \in Names, exists \in BOOLEAN, file_size \in 0..MaxSize,
        ioError \in BOOLEAN :
       post(name, exists, file_size, ioError, TRUE)
  \/ \E r \in AllIds : head(r)
  \/ \E h \in Handlers, r \in AllIds, file_offset \in RequestOffsets,
        hasLength \in BOOLEAN, n \in 0..MaxChunk :
       patch_read(h, r, file_offset, hasLength, n, TRUE)
  \/ \E h \in Handlers : patch_check(h)
  \/ \E h \in Handlers : patch_write(h)
  \/ \E h \in Handlers : patch_incr(h)
  \/ \E h \in Handlers : patch_rename(h)
  \/ \E h \in Handlers : patch_delete(h)
  \/ \E h \in Handlers : patch_signal(h)
  \/ \E r \in RIDs : timeout(r)
  \/ \E r \in RIDs, d \in Details : evict(r, d)

Spec == Init /\ [][Next]_vars

\* One client uploading one file front to back: Create with a length of at
\* least one byte, then the content cut into non-empty chunks sent with
\* Content-Length, each after the answer to the one before and at the offset
\* that answer gave.
AllIdle == \A h \in Handlers : hs[h].pc = "idle"

ReturnedOffset(r) == Len(appended[r])

Remaining(r) ==
  IF cache[r]["file_size"] = None THEN 0
  ELSE cache[r]["file_size"][1] - ReturnedOffset(r)

NextRoundTrip ==
  \/ \E name \in Names, file_size \in 1..MaxSize :
       post(name, FALSE, file_size, FALSE, TRUE)
  \/ \E r \in RIDs : head(r)
  \/ \E h \in Handlers, r \in RIDs, n \in 1..MaxChunk :
       /\ AllIdle
       /\ n <= Remaining(r)
       /\ patch_read(h, r, ReturnedOffset(r), TRUE, n, TRUE)
  \/ \E h \in Handlers : patch_check(h)
  \/ \E h \in Handlers : patch_write(h)
  \/ \E h \in Handlers : patch_incr(h)
  \/ \E h \in Handlers : patch_rename(h)
  \/ \E h \in Handlers : patch_delete(h)
  \/ \E h \in Handlers : patch_signal(h)

SpecRoundTrip == Init /\ [][NextRoundTrip]_vars

\* The deployments the overwrite policy is about: TUS_FILE_OVERWRITE set
\* either way, and the destination directory (get_destination_dir(), lines
\* 56-57) holding or not a file of the plain name a client may declare.
\* A plain name has prefix 0; line 229 prefixes every finalized name with a
\* fresh uuid, here the positive number of patch_rename.
PlainName(n) == <<0, n>>

ForeignFile ==
  [rid |-> Fabricated, name |-> PlainName("a.txt"), content |-> <<>>]

\* os.path.lexists(os.path.join(get_destination_dir(), n))
InDestination(n) == \E i \in 1..Len(destDir) : destDir[i].name = PlainName(n)

InitOverwrite ==
  /\ cache = [r \in AllIds |-> NoEntries]
  /\ uploadDir = [r \in AllIds |-> None]
  /\ destDir \in {<<>>, <<ForeignFile>>}
  /\ signals = <<>>
  /\ TUS_FILE_OVERWRITE \in BOOLEAN
  /\ nextId = 0
  /\ patches = 0
  /\ evictions = 0
  /\ hs = [h \in Handlers |-> IdleHandler]
  /\ resp = NoResponse
  /\ appended = [r \in AllIds |-> <<>>]
  /\ ttl = [r \in AllIds |-> NoTtl]

\* requests one after the other, each PATCH at the offset stored
NextOverwrite ==
  \/ \E name \in Names, exists \in BOOLEAN, file_size \in 0..MaxSize,
        ioError \in BOOLEAN :
       post(name, exists, file_size, ioError, TRUE)
  \/ \E r \in RIDs : head(r)
  \/ \E h \in Handlers, r \in RIDs, n \in 0..MaxChunk :
       /\ AllIdle
       /\ cache[r]["offset"] # None
       /\ patch_read(h, r, cache[r]["offset"][1], TRUE, n, TRUE)
  \/ \E h \in Handlers : patch_check(h)
  \/ \E h \in Handlers : patch_write(h)
  \/ \E h \in Handlers : patch_incr(h)
  \/ \E h \in Handlers : patch_rename(h)
  \/ \E h \in Handlers : patch_delete(h)
  \/ \E h \in Handlers : patch_signal(h)

SpecOverwrite == InitOverwrite /\ [][NextOverwrite]_vars

\* Clients that send Tus-Resumable or leave it out, their requests one
\* after the other.
NextProtocol ==
  \/ \E name \in Names, file_size \in 0..MaxSize, ioError \in BOOLEAN,
        tus_resumable \in BOOLEAN :
       post(name, FALSE, file_size, ioError, tus_resumable)
  \/ \E r \in RIDs : head(r)
  \/ \E h \in Handlers, r \in RIDs, file_offset \in RequestOffsets,
        n \in 0..MaxChunk, tus_resumable \in BOOLEAN :
       /\ AllIdle
       /\ patch_read(h, r, file_offset, TRUE, n, tus_resumable)
  \/ \E h \in Handlers : patch_check(h)
  \/ \E h \in Handlers : patch_write(h)
  \/ \E h \in Handlers : patch_incr(h)
  \/ \E h \in Handlers : patch_rename(h)
  \/ \E h \in Handlers : patch_delete(h)
  \/ \E h \in Handlers : patch_signal(h)

SpecProtocol == Init /\ [][NextProtocol]_vars

\* A client that never leaves its session alone for as long as TUS_TIMEOUT:
\* the clock advances only right after a POST or PATCH of its was answered
\* with success, and then by TickLength < TUS_TIMEOUT seconds.  It uploads
\* front to back, a chunk (or nothing) at a time.
Answered == resp.op \in {"post", "patch"} /\ resp.status \in {200, 201}

NextExpiry ==
  \/ \E name \in Names, file_size \in 1..MaxSize :
       post(name, FALSE, file_size, FALSE, TRUE)
  \/ \E r \in RIDs : head(r)
  \/ \E h \in Handlers, r \in RIDs, n \in 0..MaxChunk :
       /\ AllIdle
       /\ r <= nextId
       /\ n <= Remaining(r)
       /\ patch_read(h, r, ReturnedOffset(r), TRUE, n, TRUE)
  \/ \E h \in Handlers : patch_check(h)
  \/ \E h \in Handlers : patch_write(h)
  \/ \E h \in Handlers : patch_incr(h)
  \/ \E h \in Handlers : patch_rename(h)
  \/ \E h \in Handlers : patch_delete(h)
  \/ \E h \in Handlers : patch_signal(h)
  \/ Answered /\ TickLength < TUS_TIMEOUT /\ tick

SpecExpiry == Init /\ [][NextExpiry]_vars

\* ---------------------------------------------------------------- claims
SignalsOf(r) == {i \in 1..Len(signals) : signals[i].rid = r}

SessionPresent(r) == \A d \in Details : cache[r][d] # None

\* the step is one of handler h's
StepOf(h) == hs'[h] # hs[h]

\* C1: the completion signal of a session is sent at most once, and only
\* when the bytes appended to it have reached its declared size.
C1_ExactlyOnceCompletion ==
  \A r \in RIDs :
    /\ Cardinality(SignalsOf(r)) <= 1
    /\ \A i \in SignalsOf(r) : Len(appended[r]) >= signals[i].file_size[1]

\* C2: the stored offset of a session never exceeds its stored total size.
C2_OffsetBound ==
  \A r \in AllIds :
    (cache[r]["offset"] # None /\ cache[r]["file_size"] # None)
      => (0 <= cache[r]["offset"][1]
          /\ cache[r]["offset"][1] <= cache[r]["file_size"][1])

\* C3: a PATCH that found the session (its filename entry and its file) and
\* whose Upload-Offset differs from the offset it read is answered 409, and
\* neither reading the session nor the rejection changes the cache, the
\* files or the signals.
C3_ConflictDetection ==
  [][\A h \in Handlers :
       /\ (hs[h].pc = "idle" /\ hs'[h].pc = "check") => UNCHANGED store
       /\ (/\ hs[h].pc = "check"
           /\ StepOf(h)
           /\ hs[h].filename # None
           /\ uploadDir[hs[h].rid] # None
           /\ hs[h].offset # Some(hs[h].file_offset))
          => (/\ resp'.op = "patch"
              /\ resp'.rid = hs[h].rid
              /\ resp'.status = 409
              /\ hs'[h].pc = "idle"
              /\ UNCHANGED store)]_vars

\* a PATCH at the wrong offset has just been answered 409 on a live session
C3_Witness ==
  /\ resp.op = "patch"
  /\ resp.status = 409
  /\ SessionPresent(resp.rid)
  /\ uploadDir[resp.rid] # None
  /\ cache[resp.rid]["offset"][1] > 0

\* C4: a PATCH for a resource id with no entry in the cache is answered
\* 410 and raises nothing.
C4_AbsentSessionGone ==
  [][(/\ patches' = patches + 1
      /\ resp'.op = "patch"
      /\ cache[resp'.rid] = NoEntries)
     => (resp'.status = 410 /\ resp'.exc = "none" /\ UNCHANGED store)]_vars

C6_Accounting ==
  [][\A h \in Handlers :
       (/\ hs[h].pc = "incr"
        /\ StepOf(h)
        /\ cache[hs[h].rid]["offset"] # None)
       => (/\ cache'[hs[h].rid]["offset"] =
                Some(cache[hs[h].rid]["offset"][1] + Len(hs[h].body))
           /\ cache'[hs[h].rid]["offset"][1] >= cache[hs[h].rid]["offset"][1])
     ]_vars

\* C7: two PATCHes on one resource id with the same Upload-Offset are never
\* both past the synchronization check with their increments still to come.
C7_Serialized ==
  \A g, h \in Handlers :
    (/\ g # h
     /\ hs[g].pc \in {"write", "incr"}
     /\ hs[h].pc \in {"write", "incr"}
     /\ hs[g].rid = hs[h].rid)
    => hs[g].file_offset # hs[h].file_offset

\* C8: in a front-to-back upload every PATCH answers 200 with the running
\* sum of the chunk lengths, the PATCH that reaches the declared size sends
\* the completion signal, and the finalized file holds exactly the bytes
\* sent, in order.
C8_RoundTrip ==
  /\ resp.op = "patch" =>
       /\ resp.status = 200
       /\ resp.upload_offset = Some(Len(appended[resp.rid]))
       /\ (resp.upload_offset = resp.file_size) =>
             Cardinality(SignalsOf(resp.rid)) = 1
  /\ \A i \in 1..Len(destDir) :
       destDir[i].content = appended[destDir[i].rid]

\* C9: a PATCH whose chunk takes the offset past the declared size is
\* answered 409.
C9_OverlongRejected ==
  [][\A h \in Handlers :
       (/\ hs[h].pc = "incr"
        /\ StepOf(h)
        /\ cache[hs[h].rid]["offset"] # None
        /\ cache[hs[h].rid]["offset"][1] + Len(hs[h].body)
             > hs[h].file_size[1])
       => resp'.status = 409]_vars

\* C10: a PATCH that read a session whose offset equals its total size
\* neither changes the file nor the stored offset.
C10_Terminal ==
  [][\A h \in Handlers :
       (/\ hs[h].pc \in {"write", "incr"}
        /\ StepOf(h)
        /\ hs[h].offset = hs[h].file_size)
       => (/\ uploadDir'[hs[h].rid] = uploadDir[hs[h].rid]
           /\ cache'[hs[h].rid]["offset"] = cache[hs[h].rid]["offset"])]_vars

\* C11: with TUS_FILE_OVERWRITE False, a POST whose declared filename exists
\* in the destination directory is answered 409 and adds no cache entry and
\* no file; with TUS_FILE_OVERWRITE True no POST is answered 409.
C11_OverwritePolicy ==
  [][resp'.op = "post" =>
       /\ (TUS_FILE_OVERWRITE = FALSE /\ resp'.status # 409)
            => ~InDestination(cache'[resp'.rid]["filename"][1])
       /\ resp'.status = 409 => UNCHANGED <<cache, uploadDir, nextId>>
       /\ TUS_FILE_OVERWRITE = TRUE => resp'.status # 409]_vars

\* the POST of r added its cache entries and failed to create its file:
\* r has entries, no file in TUS_UPLOAD_DIR and none in the destination
FailedCreate(r) ==
  /\ cache[r]["offset"] # None
  /\ uploadDir[r] = None
  /\ \A i \in 1..Len(destDir) : destDir[i].rid # r

\* C12: a POST that cannot create its temporary file is answered 500, and
\* every later HEAD and PATCH on its resource id is answered 410.
C12_FailedPreallocation ==
  [][/\ (resp'.op = "post" /\ resp'.status # 409
           /\ uploadDir'[resp'.rid] = None) => resp'.status = 500
     /\ (resp'.op \in {"head", "patch"} /\ FailedCreate(resp'.rid))
          => resp'.status = 410]_vars

\* C13: a POST without Tus-Resumable is not answered 201 and adds no cache
\* entry and no file; a PATCH without Tus-Resumable is not answered 200 and
\* changes neither the files nor the cache.
C13_ProtocolViolation ==
  [][/\ (resp'.op = "post" /\ resp'.reason_phrase = Some(Unsupported))
          => (resp'.status # 201 /\ UNCHANGED <<cache, uploadDir, nextId>>)
     /\ \A h \in Handlers :
          (StepOf(h) /\ hs[h].pc # "idle" /\ ~hs[h].tus_resumable)
            => (resp'.status # 200 /\ UNCHANGED <<cache, uploadDir>>)]_vars

\* os.path.lexists of a path <<directory, name>>: a temporary file is named
\* by its resource id, a finalized file by the name patch_rename gave it
PathExists(path) ==
  IF path[1] = "TUS_UPLOAD_DIR"
  THEN uploadDir[path[2]] # None
  ELSE \E j \in 1..Len(destDir) : Some(destDir[j].name) = path[2]

\* the metadata POST stored for a session whose filename entry is n
OriginalMetadata(n) == IF n = "None" THEN {} ELSE {<<"filename", n>>}

\* C14: every completion signal carries the metadata the session was created
\* with, the name of its finalized file, its declared size, the destination
\* directory, and as upload_file_path a path in the destination directory
\* at which a file exists.
C14_CompletionPayload ==
  \A i \in 1..Len(signals) :
    LET s == signals[i] IN
    /\ s.metadata = Some(OriginalMetadata(s.filename[1][2]))
    /\ \E j \in 1..Len(destDir) :
         destDir[j].rid = s.rid /\ Some(destDir[j].name) = s.filename
    /\ s.file_size = Some(Len(appended[s.rid]))
    /\ s.destination_folder = "destination_dir"
    /\ s.upload_file_path[1] = s.destination_folder
    /\ PathExists(s.upload_file_path)

\* position p (from 1) of a file was written by a PATCH: request bodies
\* carry the number of their request, never the filler byte
Written(content, p) == p <= Len(content) /\ content[p] # Filler

\* C15: the file finalized for a completion signal of declared size N has
\* every one of its first N positions written by a PATCH.
C15_CompleteAtCompletion ==
  \A i \in 1..Len(signals) :
    \A j \in 1..Len(destDir) :
      Some(destDir[j].name) = signals[i].filename
        => \A p \in 1..signals[i].file_size[1] :
             Written(destDir[j].content, p)

\* some but not all of the four entries of r are in the cache
Partial(r) ==
  /\ \E d \in Details : cache[r][d] = None
  /\ \E d \in Details : cache[r][d] # None

\* C16: a HEAD or a PATCH that finds some of the four entries of a session
\* and not the others is answered 410: it neither succeeds nor raises.
C16_ConsistentLookup ==
  [][/\ (resp'.op = "head" /\ Partial(resp'.rid))
          => resp'.status = 410
     /\ (resp'.op = "patch" /\ patches' = patches + 1 /\ Partial(resp'.rid))
          => (resp'.status = 410 /\ resp'.exc = "none")
     /\ \A h \in Handlers :
          (/\ hs[h].pc = "check"
           /\ StepOf(h)
           /\ \/ hs[h].filename = None
              \/ hs[h].file_size = None
              \/ hs[h].metadata = None
              \/ hs[h].offset = None)
          => (resp'.status = 410 /\ hs'[h].pc = "idle")]_vars

\* the files os.rename moved to the destination for resource id r
FinalizedOf(r) == {j \in 1..Len(destDir) : destDir[j].rid = r}

\* handler h's step is a rename that succeeded
Moved(h) == hs[h].pc = "rename" /\ hs'[h].pc = "delete"

\* C17: for every resource id os.rename moves the temporary file to the
\* destination at most once, and only a PATCH whose cache.incr returned the
\* file size calls it; cache.delete_many follows a successful rename, the
\* signal follows both, and a failed rename is followed by neither.
C17_FinalizationOrdering ==
  [][/\ \A r \in RIDs : Cardinality(FinalizedOf(r)') <= 1
     /\ \A h \in Handlers :
          /\ (hs[h].pc = "rename" /\ StepOf(h))
               => (/\ hs[h].new_offset # None
                   /\ hs[h].new_offset = hs[h].file_size)
          /\ Moved(h)
               => (/\ destDir' = Append(destDir, destDir'[Len(destDir')])
                   /\ destDir'[Len(destDir')].rid = hs[h].rid
                   /\ UNCHANGED <<cache, signals>>)
          /\ (hs[h].pc = "rename" /\ StepOf(h) /\ ~Moved(h))
               => (/\ hs'[h].pc = "idle"
                   /\ resp'.exc # "none"
                   /\ UNCHANGED <<cache, signals, destDir>>)
          /\ (hs[h].pc # "idle" /\ StepOf(h)
                /\ cache[hs[h].rid] # NoEntries
                /\ cache'[hs[h].rid] = NoEntries)
               => (hs[h].pc = "delete" /\ FinalizedOf(hs[h].rid) # {})
          /\ (signals' # signals /\ StepOf(h))
               => (/\ hs[h].pc = "signal"
                   /\ FinalizedOf(hs[h].rid) # {}
                   /\ cache[hs[h].rid] = NoEntries)]_vars

\* C18: the temporary file of a session has as many bytes as the session's
\* declared size, from its creation on, and so has the file finalized for
\* a completion signal.
C18_PreallocationSize ==
  /\ \A r \in RIDs :
       (uploadDir[r] # None /\ cache[r]["file_size"] # None)
         => Len(uploadDir[r][1]) = cache[r]["file_size"][1]
  /\ \A i \in 1..Len(signals) :
       \A j \in 1..Len(destDir) :
         Some(destDir[j].name) = signals[i].filename
           => Len(destDir[j].content) = signals[i].file_size[1]

\* C19: only POST creates a file in TUS_UPLOAD_DIR; a PATCH that finds its
\* temporary file absent when it comes to write fails and creates none.
C19_AppendNeverCreates ==
  [][/\ \A r \in AllIds :
          (uploadDir[r] = None /\ uploadDir'[r] # None) => resp'.op = "post"
     /\ \A h \in Handlers :
          (hs[h].pc = "write" /\ StepOf(h) /\ uploadDir[hs[h].rid] = None)
            => (/\ uploadDir'[hs[h].rid] = None
                /\ hs'[h].pc = "idle"
                /\ resp'.op = "patch"
                /\ resp'.status # 200)]_vars

\* C20: while a client keeps appending at intervals shorter than
\* TUS_TIMEOUT, the four entries of its session stay in the cache until the
\* upload is finalized, and none of its PATCHes is answered 410 or raises.
C20_InactivityExpiry ==
  /\ \A r \in RIDs :
       (r <= nextId /\ FinalizedOf(r) = {}) => SessionPresent(r)
  /\ resp.op = "patch" => (resp.status = 200 /\ resp.exc = "none")

====
